---- MODULE Spec2Model ----
(***************************************************************************)
(* AgroScope backend (server.js): NASA POWER acquisition, cleaning,        *)
(* imputation, AI sanity check and the /analyze-polygon handler; and the   *)
(* page (part_000): the 4-point polygon tool, its requests, the results    *)
(* panel and the POWER table.                                              *)
(*                                                                         *)
(* JavaScript values are records [k, n, d]: k is the kind, and a finite    *)
(* number is the exact fraction n/d in lowest terms with d > 0.  Binary    *)
(* rounding of doubles is not modelled: arithmetic is exact.  The range    *)
(* of a double is: a number of kind "big" is n/d * 1e308, and a result     *)
(* beyond Number.MAX_VALUE (about 1.7976e308) is Infinity.                 *)
(***************************************************************************)
EXTENDS Integers, Sequences, FiniteSets, TLC

VARIABLES
  \* one application of a pure function: its name, argument and result
  fn, arg, ret,
  \* fetchPowerStrict: control, arguments, loop position (community index,
  \* phase, neighbor index, cascade index), acc, and the result
  pc, lat, lon, ci, phase, ni, ti, acc, rawPower,
  \* the upstream calls in flight, the number answered with a parsed body
  \* in this invocation, and the attempts made so far
  inflight, parsed, attempts,
  \* /analyze-polygon: the model client (configured or not), the record after
  \* the AI sanity check, and the response sent
  openai, power, res,
  \* the page (part_000): the polygon tool, the status line, the results
  \* panel, the POWER table and its caption, the active tab, the buttons'
  \* disabled flags, the requests in flight and the polygons drawn so far
  selecting, points, markers, line, poly,
  statusEl, results, powerTbody, powerMeta, tab, disabled, requests, polygons

unitVars == <<fn, arg, ret>>
handlerVars == <<openai, power, res>>
fetchVars_but_pc ==
  <<lat, lon, ci, phase, ni, ti, acc, rawPower, inflight, parsed, attempts>>
fetchVars == <<pc, lat, lon, ci, phase, ni, ti, acc, rawPower, inflight, parsed, attempts>>
pageVars == <<selecting, points, markers, line, poly, statusEl, results, powerTbody, disabled>>
uiVars == <<pageVars, powerMeta, tab, requests, polygons>>
vars == <<unitVars, fetchVars, handlerVars, uiVars>>

\* ------------------------------------------------------------ bounds
\* longest raw mapping handed to seriesFromParam
MaxRaw == 5
\* longest sample handed to quantile / trimMeanArr
MaxLen == 5
\* upstream calls of one fetchPowerStrict invocation answered with a parsed body
MaxData == 2
\* neighbor results handed to the neighbor merge on its own
MaxNeighbors == 3
\* polygons completed on the page
MaxPolygons == 2

\* ------------------------------------------------------------ JS values
Abs(x) == IF x < 0 THEN -x ELSE x

RECURSIVE Gcd(_, _)
Gcd(a, b) == IF b = 0 THEN a ELSE Gcd(b, a % b)

\* the finite number n/d, normalised
Q(n, d) ==
  LET g == Gcd(Abs(n), Abs(d))
      s == IF d < 0 THEN -1 ELSE 1
  IN [k |-> "num", n |-> (s * n) \div g, d |-> (s * d) \div g]

I(n) == Q(n, 1)
Null == [k |-> "null", n |-> 0, d |-> 1]
Undef == [k |-> "undef", n |-> 0, d |-> 1]
NaN == [k |-> "nan", n |-> 0, d |-> 1]
PosInf == [k |-> "inf", n |-> 1, d |-> 1]
NegInf == [k |-> "inf", n |-> -1, d |-> 1]
\* the literals 1e20 and -1e20 (beyond TLC's integers: a kind of their own)
E20 == [k |-> "e20", n |-> 1, d |-> 1]
NegE20 == [k |-> "e20", n |-> -1, d |-> 1]
\* n/d * 1e308, for n # 0: finite while at most Number.MAX_VALUE
Big(n, d) ==
  IF n = 0 THEN I(0)
  ELSE IF Abs(n) * 10000 > 17976 * Abs(d)
       THEN [k |-> "inf", n |-> IF (n < 0) = (d < 0) THEN 1 ELSE -1, d |-> 1]
       ELSE [Q(n, d) EXCEPT !.k = "big"]
\* strings: "", a numeric string such as "15.2", any other text
EmptyStr == [k |-> "empty", n |-> 0, d |-> 1]
NumStr(n, d) == [k |-> "numstr", n |-> Q(n, d).n, d |-> Q(n, d).d]
JunkStr == [k |-> "junk", n |-> 0, d |-> 1]

\* v == null (loose equality: null or undefined)
IsNullish(v) == v.k \in {"null", "undef"}

\* Number(v)
Number(v) ==
  CASE v.k \in {"num", "e20", "big", "nan", "inf"} -> v
    [] v.k \in {"null", "empty"} -> I(0)
    [] v.k = "numstr" -> Q(v.n, v.d)
    [] OTHER -> NaN

\* Number.isFinite(v): no coercion
NumberIsFinite(v) == v.k \in {"num", "e20", "big"}

\* order of the extended reals; NaN never reaches it
Sign(a) == IF a.n > 0 THEN 1 ELSE IF a.n < 0 THEN -1 ELSE 0
Class(v) ==
  CASE v.k = "inf" -> 3 * v.n [] v.k = "big" -> 2 * Sign(v) [] v.k = "e20" -> v.n
    [] OTHER -> 0
Lt(a, b) ==
  IF Class(a) # Class(b) THEN Class(a) < Class(b)
  ELSE a.k = b.k /\ a.k \in {"num", "big"} /\ a.n * b.d < b.n * a.d
Le(a, b) == a = b \/ Lt(a, b)

\* Math.max / Math.min of two arguments (ToNumber on each, NaN is contagious)
MathMax(a, b) ==
  LET x == Number(a)
      y == Number(b)
  IN IF x.k = "nan" \/ y.k = "nan" THEN NaN ELSE IF Lt(x, y) THEN y ELSE x
MathMin(a, b) ==
  LET x == Number(a)
      y == Number(b)
  IN IF x.k = "nan" \/ y.k = "nan" THEN NaN ELSE IF Lt(y, x) THEN y ELSE x

\* a + b, a - b, a * b, a / b on numbers
Neg(a) == IF a.k = "nan" THEN NaN ELSE [a EXCEPT !.n = -a.n]
Add(a, b) ==
  CASE a.k = "nan" \/ b.k = "nan" -> NaN
    [] a.k = "num" /\ b.k = "num" -> Q(a.n * b.d + b.n * a.d, a.d * b.d)
    [] a.k = "inf" /\ b.k = "inf" -> IF a.n = b.n THEN a ELSE NaN
    [] a.k = "inf" /\ b.k \in {"num", "big"} -> a
    [] a.k \in {"num", "big"} /\ b.k = "inf" -> b
    [] a.k = "big" /\ b.k = "big" -> Big(a.n * b.d + b.n * a.d, a.d * b.d)
    \* a number of ordinary size is below the last bit of a big one
    [] a.k = "big" /\ b.k = "num" -> a
    [] a.k = "num" /\ b.k = "big" -> b
Sub(a, b) == Add(a, Neg(b))
Mul(a, b) ==
  CASE a.k = "nan" \/ b.k = "nan" -> NaN
    [] a.k = "num" /\ b.k = "num" -> Q(a.n * b.n, a.d * b.d)
    [] (a.k = "big" /\ b.k = "num") \/ (a.k = "num" /\ b.k = "big") ->
         Big(a.n * b.n, a.d * b.d)
    [] a.k \in {"num", "inf"} /\ b.k \in {"num", "inf"} ->
         IF Sign(a) * Sign(b) = 0 THEN NaN
         ELSE [k |-> "inf", n |-> Sign(a) * Sign(b), d |-> 1]
Div(a, b) ==
  CASE a.k = "nan" \/ b.k = "nan" -> NaN
    [] a.k = "num" /\ b.k = "num" ->
         IF b.n # 0 THEN Q(a.n * b.d, a.d * b.n)
         ELSE IF a.n = 0 THEN NaN
         ELSE [k |-> "inf", n |-> Sign(a), d |-> 1]
    [] a.k = "big" /\ b.k = "num" ->
         IF b.n # 0 THEN Big(a.n * b.d, a.d * b.n)
         ELSE [k |-> "inf", n |-> Sign(a), d |-> 1]
    [] a.k = "inf" /\ b.k = "num" ->
         [k |-> "inf", n |-> a.n * (IF b.n < 0 THEN -1 ELSE 1), d |-> 1]
    [] a.k = "num" /\ b.k = "inf" -> I(0)
    [] a.k = "inf" /\ b.k = "inf" -> NaN

\* Math.floor / Math.ceil of a finite number, as integers
Floor(a) == a.n \div a.d
Ceil(a) == -((-a.n) \div a.d)

\* ------------------------------------------------------------ helpers (server.js 38-46)
\* MASKS.has(v) (SameValueZero: a string is never a number)
MASKS_has(v) ==
  \/ v.k \in {"null", "undef", "empty", "e20"}
  \/ v.k = "num" /\ v.d = 1 /\ v.n \in {-999, -9999, -99}

isNum(v) == NumberIsFinite(Number(v))
clamp(v, lo, hi) == MathMin(MathMax(v, lo), hi)
nonneg(v) == MathMax(I(0), v)

\* [f(s[1]), ..., f(s[n])]
MapSeq(s, f(_)) == [i \in 1..Len(s) |-> f(s[i])]

\* a raw mapping (an object keyed by date) holds the sequence of its values;
\* Object.values(paramObj || {}) of a missing parameter is empty
Obj(vals) == [k |-> "obj", vals |-> vals]
ObjectValues(paramObj) == IF paramObj.k = "obj" THEN paramObj.vals ELSE <<>>

seriesFromParam_keep(v) == isNum(v) /\ ~MASKS_has(v)
seriesFromParam(paramObj) ==
  SelectSeq(MapSeq(ObjectValues(paramObj), Number), seriesFromParam_keep)

\* ------------------------------------------------------------ statistics (server.js 47-62)
\* [...a].sort((x, y) => x - y)
RECURSIVE Insert(_, _)
Insert(x, s) ==
  IF s = <<>> THEN <<x>>
  ELSE IF Lt(x, Head(s)) THEN <<x>> \o s
  ELSE <<Head(s)>> \o Insert(x, Tail(s))
RECURSIVE SortAsc(_)
SortAsc(a) == IF a = <<>> THEN <<>> ELSE Insert(Head(a), SortAsc(Tail(a)))

\* 50-54, on the sorted copy s and the position i = (s.length - 1) * q
quantile_at(s, i, lo, hi, t) ==
  IF lo = hi THEN s[lo + 1]
  ELSE Add(Mul(s[lo + 1], Sub(I(1), t)), Mul(s[hi + 1], t))
quantile_pos(s, i) == quantile_at(s, i, Floor(i), Ceil(i), Sub(i, I(Floor(i))))
quantile(a, q) ==
  IF Len(a) = 0 THEN Null
  ELSE quantile_pos(SortAsc(a), Mul(I(Len(a) - 1), q))

RECURSIVE SumSeq(_)
SumSeq(s) == IF s = <<>> THEN I(0) ELSE Add(SumSeq(SubSeq(s, 1, Len(s) - 1)), s[Len(s)])

\* the elements of a within [lo, hi] (line 59)
trimWithin(a, lo, hi) ==
  SelectSeq(a, LAMBDA v : (IsNullish(lo) \/ Le(lo, v)) /\ (IsNullish(hi) \/ Le(v, hi)))
\* a trim that keeps everything at or above the low quantile
trimRetained_noUpper(a, loQ, hiQ) == trimWithin(a, quantile(a, loQ), Null)
\* the elements trimMeanArr retains (58-59)
trimRetained(a, loQ, hiQ) == trimWithin(a, quantile(a, loQ), quantile(a, hiQ))

\* 60-61, on the retained elements t
trimMeanArr_mean(t) == IF Len(t) = 0 THEN Null ELSE Div(SumSeq(t), I(Len(t)))
trimMeanArr(a, loQ, hiQ) ==
  IF Len(a) = 0 THEN Null ELSE trimMeanArr_mean(trimRetained(a, loQ, hiQ))

\* the default quantiles of trimMeanArr (loQ = 0.1, hiQ = 0.9)
LoQ == Q(1, 10)
HiQ == Q(9, 10)

\* ------------------------------------------------------------ records
\* A POWER-like record.  A field that the object does not have is Undef; the
\* provenance is meta (source "absent": no meta), the top-level community
\* that fetchPowerStrict spreads in, and ai_notes.
NoMeta == [source |-> "absent", community |-> "absent", window |-> 0, ai |-> FALSE]
EmptyRecord ==
  [t2m_avg |-> Undef, rh2m_avg |-> Undef, precip_mm_day |-> Undef,
   solar_mj_m2_day |-> Undef, meta |-> NoMeta, community |-> "absent",
   ai_notes |-> "absent"]

\* ------------------------------------------------------------ finalizeStrict (server.js 144-181)
DEFAULTS == [t |-> I(20), rh |-> I(60), p |-> I(2), s |-> I(18)]

\* first pass: clamp existing values (148-151)
clampExisting(out) ==
  [out EXCEPT
    !.t2m_avg = IF ~IsNullish(@) THEN clamp(Number(@), I(-60), I(60)) ELSE @,
    !.rh2m_avg = IF ~IsNullish(@) THEN clamp(Number(@), I(0), I(100)) ELSE @,
    !.precip_mm_day = IF ~IsNullish(@) THEN nonneg(Number(@)) ELSE @,
    !.solar_mj_m2_day = IF ~IsNullish(@) THEN nonneg(Number(@)) ELSE @]

\* a temperature imputation that ignores solar
imputeT_defaultOnly(out) ==
  IF IsNullish(out.t2m_avg) THEN [out EXCEPT !.t2m_avg = DEFAULTS.t] ELSE out
\* 156-160
imputeT(out) ==
  IF IsNullish(out.t2m_avg)
  THEN [out EXCEPT !.t2m_avg =
          IF ~IsNullish(out.solar_mj_m2_day)
          THEN clamp(Add(I(8), Mul(out.solar_mj_m2_day, Q(4, 5))), I(-60), I(60))
          ELSE DEFAULTS.t]
  ELSE out

\* 161-165
imputeRH(out) ==
  IF IsNullish(out.rh2m_avg)
  THEN [out EXCEPT !.rh2m_avg =
          IF ~IsNullish(out.precip_mm_day)
          THEN clamp(Add(I(40), Mul(MathMin(out.precip_mm_day, I(10)), I(6))), I(0), I(100))
          ELSE DEFAULTS.rh]
  ELSE out

\* a solar imputation that takes the literal default
imputeS_default(out) ==
  IF IsNullish(out.solar_mj_m2_day)
  THEN [out EXCEPT !.solar_mj_m2_day = nonneg(DEFAULTS.s)]
  ELSE out
\* a solar estimate without the factor 0.8
imputeS_noScale(out) ==
  IF IsNullish(out.solar_mj_m2_day)
  THEN [out EXCEPT !.solar_mj_m2_day = nonneg(Sub(out.t2m_avg, I(8)))]
  ELSE out
\* 166-169
imputeS(out) ==
  IF IsNullish(out.solar_mj_m2_day)
  THEN LET est == Div(Sub(out.t2m_avg, I(8)), Q(4, 5))
       IN [out EXCEPT !.solar_mj_m2_day = nonneg(IF isNum(est) THEN est ELSE DEFAULTS.s)]
  ELSE out

\* a precipitation default that replaces the value present
imputeP_always(out) == [out EXCEPT !.precip_mm_day = DEFAULTS.p]
\* 170-172
imputeP(out) ==
  IF IsNullish(out.precip_mm_day) THEN [out EXCEPT !.precip_mm_day = DEFAULTS.p] ELSE out

\* final clamps (175-178)
finalClamps(out) ==
  [out EXCEPT
    !.t2m_avg = clamp(@, I(-60), I(60)),
    !.rh2m_avg = clamp(@, I(0), I(100)),
    !.solar_mj_m2_day = nonneg(@),
    !.precip_mm_day = nonneg(@)]

finalizeStrict(powerLike) ==
  finalClamps(imputeP(imputeS(imputeRH(imputeT(clampExisting(powerLike))))))

\* ------------------------------------------------------------ POWER service (server.js 29-36, 64-141)
COMMUNITIES == <<"AG", "RE", "SB">>
DAILY_WINDOWS == <<30, 60, 90, 180, 365>>
MONTH_WINDOWS == <<24, 60, 120>>
NEIGHBOR_OFFSETS ==
  << <<I(0), I(0)>>, <<Q(2, 10), I(0)>>, <<Q(-2, 10), I(0)>>,
     <<I(0), Q(2, 10)>>, <<I(0), Q(-2, 10)>>, <<Q(2, 10), Q(2, 10)>>,
     <<Q(2, 10), Q(-2, 10)>>, <<Q(-2, 10), Q(2, 10)>>, <<Q(-2, 10), Q(-2, 10)>> >>

\* a cascade that starts with the monthly windows
Cascade_monthlyFirst ==
  [i \in 1..(Len(DAILY_WINDOWS) + Len(MONTH_WINDOWS) + 1) |->
     IF i <= Len(MONTH_WINDOWS)
     THEN [source |-> "monthly", window |-> MONTH_WINDOWS[i]]
     ELSE IF i <= Len(DAILY_WINDOWS) + Len(MONTH_WINDOWS)
     THEN [source |-> "daily", window |-> DAILY_WINDOWS[i - Len(MONTH_WINDOWS)]]
     ELSE [source |-> "climatology", window |-> 12]]
\* the cascade of one point: the daily windows, the monthly windows, climatology
Cascade ==
  [i \in 1..(Len(DAILY_WINDOWS) + Len(MONTH_WINDOWS) + 1) |->
     IF i <= Len(DAILY_WINDOWS)
     THEN [source |-> "daily", window |-> DAILY_WINDOWS[i]]
     ELSE IF i <= Len(DAILY_WINDOWS) + Len(MONTH_WINDOWS)
     THEN [source |-> "monthly", window |-> MONTH_WINDOWS[i - Len(DAILY_WINDOWS)]]
     ELSE [source |-> "climatology", window |-> 12]]

\* An upstream outcome: a transport failure, a non-success status, a body
\* that does not parse, or a parsed JSON value.  A parsed value is JSON null
\* or a body whose properties.parameter maps each variable to a raw mapping
\* (Undef: the variable is not in the response).
Failure(kind) == [kind |-> kind, json |-> Null]
Json(j) == [kind |-> "json", json |-> j]
Body(t, rh, p, s) ==
  [k |-> "body",
   parameter |-> [T2M |-> t, RH2M |-> rh, PRECTOTCORR |-> p, ALLSKY_SFC_SW_DWN |-> s]]

\* getJSON (64-77): null unless the call succeeds and the body parses
getJSON(o) == IF o.kind = "json" THEN o.json ELSE Null

\* !j
Falsy(j) == j.k = "null"

\* a try* result: None (null) or Some(record)
None == <<>>
Some(r) == <<r>>

\* 79-92
\* 86-87 and 88-89, on the cleaned series of one variable
summarize_clamped(T, lo, hi) ==
  IF Len(T) > 0 THEN clamp(trimMeanArr(T, Q(1, 10), Q(9, 10)), lo, hi) ELSE Null
summarize_nonneg(P) ==
  IF Len(P) > 0 THEN nonneg(trimMeanArr(P, Q(1, 10), Q(9, 10))) ELSE Null
summarizeDailyMonthly(props) ==
  [EmptyRecord EXCEPT
     !.t2m_avg = summarize_clamped(seriesFromParam(props.parameter.T2M), I(-60), I(60)),
     !.rh2m_avg = summarize_clamped(seriesFromParam(props.parameter.RH2M), I(0), I(100)),
     !.precip_mm_day = summarize_nonneg(seriesFromParam(props.parameter.PRECTOTCORR)),
     !.solar_mj_m2_day = summarize_nonneg(seriesFromParam(props.parameter.ALLSKY_SFC_SW_DWN))]

\* 94-107
summarizeClimatology_mean(s) ==
  IF Len(s) = 0 THEN Null ELSE trimMeanArr(s, Q(1, 10), Q(9, 10))
summarizeClimatology_avg(obj) == summarizeClimatology_mean(seriesFromParam(obj))
summarizeClimatology(props) ==
  [EmptyRecord EXCEPT
     !.t2m_avg = summarizeClimatology_avg(props.parameter.T2M),
     !.rh2m_avg = summarizeClimatology_avg(props.parameter.RH2M),
     !.precip_mm_day = summarizeClimatology_avg(props.parameter.PRECTOTCORR),
     !.solar_mj_m2_day = summarizeClimatology_avg(props.parameter.ALLSKY_SFC_SW_DWN)]

Meta(source, community, window) ==
  [source |-> source, community |-> community, window |-> window, ai |-> FALSE]

\* 109-117; o is the outcome of the one upstream call
tryDaily(la, lo, community, days, o) ==
  IF Falsy(getJSON(o)) THEN None
  ELSE Some([summarizeDailyMonthly(getJSON(o)) EXCEPT
               !.meta = Meta("daily", community, days)])

\* 119-129
tryMonthly(la, lo, community, months, o) ==
  IF Falsy(getJSON(o)) THEN None
  ELSE Some([summarizeDailyMonthly(getJSON(o)) EXCEPT
               !.meta = Meta("monthly", community, months)])

\* 131-141
tryClimatology(la, lo, community, o) ==
  IF Falsy(getJSON(o)) THEN None
  ELSE Some([summarizeClimatology(getJSON(o)) EXCEPT
               !.t2m_avg = IF IsNullish(@) THEN Null ELSE clamp(@, I(-60), I(60)),
               !.rh2m_avg = IF IsNullish(@) THEN Null ELSE clamp(@, I(0), I(100)),
               !.precip_mm_day = IF IsNullish(@) THEN Null ELSE nonneg(@),
               !.solar_mj_m2_day = IF IsNullish(@) THEN Null ELSE nonneg(@),
               !.meta = Meta("climatology", community, 12)])

\* the upstream call a try* function issues
Call(la, lo, community, tier) ==
  [lat |-> la, lon |-> lo, community |-> community,
   source |-> tier.source, window |-> tier.window]

\* the try* function of a call, on the call's outcome
Try(c, o) ==
  CASE c.source = "daily" -> tryDaily(c.lat, c.lon, c.community, c.window, o)
    [] c.source = "monthly" -> tryMonthly(c.lat, c.lon, c.community, c.window, o)
    [] c.source = "climatology" -> tryClimatology(c.lat, c.lon, c.community, o)

\* ------------------------------------------------------------ the page: polygon tool (part_000 110-207)
\* map positions a click can land on
LatLngs == {1, 2}

\* layers of drawLayer: line and poly are null or a layer
NullLayer == [kind |-> "null", latlngs |-> <<>>, id |-> 0]
\* 166-167: the marker of a point, with its number as tooltip
circleMarker(latlng, label) == [latlng |-> latlng, tooltip |-> label]
\* 144, 172: the dashed temporary polyline
polyline(latlngs) == [kind |-> "polyline", latlngs |-> latlngs, id |-> 0]
\* 177: the polygon; id tells the polygon objects apart
polygon(latlngs, id) == [kind |-> "polygon", latlngs |-> latlngs, id |-> id]

\* what the results panel shows: d.error or the result, and the polygon it
\* was computed for (348-362)
Cleared == [shows |-> "-", of |-> 0]
Result(shows, id) == [shows |-> shows, of |-> id]
\* 321-345: the table body and the caption
Rows(shows, id) == [shows |-> shows, of |-> id]

\* the page as the handlers see it
Page ==
  [selecting |-> selecting, points |-> points, markers |-> markers,
   line |-> line, poly |-> poly, statusEl |-> statusEl, results |-> results,
   powerTbody |-> powerTbody, disabled |-> disabled]
\* the page after a handler has run
Shown(p) ==
  /\ selecting' = p.selecting /\ points' = p.points /\ markers' = p.markers
  /\ line' = p.line /\ poly' = p.poly /\ statusEl' = p.statusEl
  /\ results' = p.results /\ powerTbody' = p.powerTbody /\ disabled' = p.disabled

\* 118-122
setBtns(p) ==
  [p EXCEPT !.disabled =
     [undoBtn |-> ~p.selecting \/ Len(p.points) = 0,
      resetBtn |-> ~p.selecting /\ p.poly = NullLayer,
      startBtn |-> p.selecting]]
\* 123-128
clearTemps(p) == [p EXCEPT !.markers = <<>>, !.line = NullLayer, !.points = <<>>]
\* 348-362
writeResult(p, d) == [p EXCEPT !.results = d]
\* 326-329
clearPowerTable(p) == [p EXCEPT !.powerTbody = Rows("-", 0)]
\* 129-134
resetAll(p) ==
  clearPowerTable(writeResult(
    setBtns([clearTemps(p) EXCEPT !.poly = NullLayer, !.selecting = FALSE,
                                  !.statusEl = "Click Start, then pick 4 points"]),
    Cleared))
\* 135-138
begin(p) ==
  setBtns([resetAll(p) EXCEPT !.selecting = TRUE,
                              !.statusEl = "Click 4 points on the map"])
Front(s) == SubSeq(s, 1, Len(s) - 1)
\* 139-147
undo(p) ==
  IF Len(p.points) = 0 THEN p
  ELSE setBtns([p EXCEPT
         !.points = Front(@), !.markers = Front(@),
         !.line = IF Len(p.points) - 1 >= 2 THEN polyline(Front(p.points))
                  ELSE NullLayer])

\* the registrations of click listeners, in the order they are made
\* (148-150, 370-372); #startBtn, #undoBtn and #resetBtn are looked up twice
\* and give the same elements
Registrations ==
  << <<"startBtn", "begin">>, <<"undoBtn", "undo">>, <<"resetBtn", "resetAll">>,
     <<"startBtn", "begin">>, <<"undoBtn", "undo">>, <<"resetBtn", "resetAll">> >>
\* a registration that keeps a listener already in the list
addEventListener_again(list, l) == Append(list, l)
\* EventTarget.addEventListener: a listener with the same type, callback
\* and capture as one in the list is not added again
addEventListener(list, l) ==
  IF \E i \in 1..Len(list) : list[i] = l THEN list ELSE Append(list, l)
RECURSIVE Registered(_)
Registered(n) ==
  IF n = 0 THEN <<>> ELSE addEventListener(Registered(n - 1), Registrations[n])
Listeners == Registered(Len(Registrations))

Invoke(callback, p) ==
  CASE callback = "begin" -> begin(p)
    [] callback = "undo" -> undo(p)
    [] callback = "resetAll" -> resetAll(p)
\* a click on a button runs its listeners in the order of registration
RECURSIVE Dispatch(_, _, _)
Dispatch(target, i, p) ==
  IF i > Len(Listeners) THEN p
  ELSE Dispatch(target, i + 1,
                IF Listeners[i][1] = target THEN Invoke(Listeners[i][2], p) ELSE p)
click(target) ==
  /\ Shown(Dispatch(target, 1, Page))
  /\ UNCHANGED <<powerMeta, tab, requests, polygons>>
  /\ UNCHANGED <<unitVars, fetchVars, handlerVars>>
\* a disabled button gets no click
click_start == ~disabled.startBtn /\ click("startBtn")
click_undo == ~disabled.undoBtn /\ click("undoBtn")
click_reset == ~disabled.resetBtn /\ click("resetBtn")

\* 153-159: keyboard shortcuts, whatever the state of the buttons
keydown(callback) ==
  /\ Shown(Invoke(callback, Page))
  /\ UNCHANGED <<powerMeta, tab, requests, polygons>>
key_s == keydown("begin") /\ UNCHANGED <<unitVars, fetchVars, handlerVars>>
key_u == keydown("undo") /\ UNCHANGED <<unitVars, fetchVars, handlerVars>>
key_r == keydown("resetAll") /\ UNCHANGED <<unitVars, fetchVars, handlerVars>>

\* 53-56: a click on a tab
tab_click ==
  /\ tab' \in {"results", "power"}
  /\ UNCHANGED <<pageVars, powerMeta, requests, polygons>>
  /\ UNCHANGED <<unitVars, fetchVars, handlerVars>>

\* 205: `Point ${points.length}/4 placed...`
PointPlaced == <<"Point 1/4 placed...", "Point 2/4 placed...", "Point 3/4 placed...">>
\* 165-173, 205: a point is placed
placed(p, latlng) ==
  LET pts == Append(p.points, latlng)
  IN [p EXCEPT
        !.points = pts,
        !.markers = Append(@, circleMarker(latlng, Len(pts))),
        !.line = IF Len(pts) >= 2 /\ Len(pts) < 4 THEN polyline(pts) ELSE NullLayer,
        !.statusEl = IF Len(pts) = 4 THEN @ ELSE PointPlaced[Len(pts)]]
\* 175-179: the fourth point closes the polygon
closed(p, id) ==
  IF Len(p.points) = 4
  THEN setBtns([p EXCEPT !.line = NullLayer, !.poly = polygon(p.points, id),
                         !.selecting = FALSE, !.statusEl = "Analyzing..."])
  ELSE p
\* 278-279: fetchPowerSeries, up to its first await
loading(p, centroid) ==
  IF Len(p.points) = 4 /\ centroid THEN [p EXCEPT !.powerTbody = Rows("Loading...", 0)] ELSE p
Request(kind, id) == [kind |-> kind, of |-> id]
\* 162-201: a click on the map, up to the await of both requests; centroid
\* tells whether the centroid could be computed (181-195)
map_click ==
  /\ selecting
  /\ Len(points) = 3 => polygons < MaxPolygons
  /\ \E latlng \in LatLngs, centroid \in BOOLEAN :
       /\ Shown(loading(closed(placed(Page, latlng), polygons + 1), centroid))
       /\ IF Len(points) = 3
          THEN /\ polygons' = polygons + 1
               /\ requests' = requests \cup {Request("analyze", polygons + 1)}
                    \cup (IF centroid THEN {Request("series", polygons + 1)} ELSE {})
               /\ powerMeta' = IF centroid THEN Rows("Loading POWER", polygons + 1)
                               ELSE powerMeta
          ELSE UNCHANGED <<polygons, requests, powerMeta>>
  /\ UNCHANGED tab
  /\ UNCHANGED <<unitVars, fetchVars, handlerVars>>

\* 198-203: when both requests of a polygon have settled, the click handler
\* that started them runs on
settled(p, id, rest) ==
  IF \E r \in rest : r.of = id THEN p
  ELSE [p EXCEPT !.statusEl = "Done. Click Reset to draw again."]

\* 224-236, 250-254: what analyzePolygon writes for an outcome
AnalyzeOutcomes == {"result", "Server error", "Bad JSON from server", "Network error"}
analyzed(p, o, id) ==
  [writeResult(p, Result(o, id)) EXCEPT
     !.statusEl =
        CASE o = "Server error" -> "Server error"
          [] o = "Bad JSON from server" -> "Bad JSON"
          [] o = "Network error" -> "Network error - is the server running?"
          [] OTHER -> @]
\* 210-256: the answer to POST /analyze-polygon has been read, or has failed
analyze_response ==
  /\ \E r \in requests, o \in AnalyzeOutcomes :
       /\ r.kind = "analyze"
       /\ requests' = requests \ {r}
       /\ Shown(settled(analyzed(Page, o, r.of), r.of, requests \ {r}))
  /\ UNCHANGED <<powerMeta, tab, polygons>>
  /\ UNCHANGED <<unitVars, fetchVars, handlerVars>>

\* 282-318: the answer of the POWER service has been read (with rows or
\* without), or has failed
SeriesOutcomes == {"rows", "No data", "error"}
series_response ==
  /\ \E r \in requests, o \in SeriesOutcomes :
       /\ r.kind = "series"
       /\ requests' = requests \ {r}
       /\ Shown(settled(
            [Page EXCEPT !.powerTbody =
               IF o = "rows" THEN Rows("rows", r.of) ELSE Rows("No data", 0)],
            r.of, requests \ {r}))
       /\ powerMeta' = Rows(IF o = "error" THEN "POWER load error" ELSE "POWER daily", r.of)
       /\ tab' = IF o = "error" THEN tab ELSE "power"
  /\ UNCHANGED polygons
  /\ UNCHANGED <<unitVars, fetchVars, handlerVars>>

\* the page before it is loaded, and as loaded: what the document shows at
\* first, and which buttons it disables, is the document's choice
PageOff ==
  /\ selecting = FALSE /\ points = <<>> /\ markers = <<>>
  /\ line = NullLayer /\ poly = NullLayer
  /\ statusEl = "" /\ results = Cleared /\ powerTbody = Rows("-", 0)
  /\ powerMeta = Rows("", 0)
  /\ tab = "off"
  /\ disabled = [undoBtn |-> FALSE, resetBtn |-> FALSE, startBtn |-> FALSE]
  /\ requests = {} /\ polygons = 0
PageLoaded ==
  /\ selecting = FALSE /\ points = <<>> /\ markers = <<>>
  /\ line = NullLayer /\ poly = NullLayer
  /\ statusEl = "" /\ results = Cleared /\ powerTbody = Rows("-", 0)
  /\ powerMeta = Rows("", 0)
  /\ tab = "results"
  /\ disabled \in [{"undoBtn", "resetBtn", "startBtn"} -> BOOLEAN]
  /\ requests = {} /\ polygons = 0

\* ------------------------------------------------------------ fetchPowerStrict (server.js 183-236)
\* no response sent
NoBody ==
  [country |-> "", crop |-> "", regional_popular_crop |-> "", temperature_c |-> Undef,
   humidity_relative_percent |-> Undef, soil_water_retention |-> "", power |-> EmptyRecord]
NoResponse == [status |-> 0, error |-> "", body |-> NoBody]

\* bodies the POWER service answers with
BodyEmpty == Body(Undef, Undef, Undef, Undef)
BodyFull ==
  Body(Obj(<<I(-999), I(10), I(11), I(9), I(10), I(500)>>),
       Obj(<<I(55), I(60), I(65)>>),
       Obj(<<I(0), I(3), I(6)>>),
       Obj(<<I(18), I(20), I(22)>>))
BodySolarOnly == Body(Undef, Undef, Undef, Obj(<<I(20)>>))
BodyRough ==
  Body(Obj(<<I(100)>>), Obj(<<I(40), I(80)>>), Obj(<<I(-5)>>), Obj(<<EmptyStr>>))
\* two precipitation readings of 1e308
BodyHuge == Body(Undef, Undef, Obj(<<Big(1, 1), Big(1, 1)>>), Undef)
Bodies == {BodyEmpty, BodyFull, BodySolarOnly, BodyRough, BodyHuge}
Failures ==
  {Failure("network_error"), Failure("http_error"), Failure("bad_json"), Json(Null)}
Outcomes == Failures \cup (IF parsed < MaxData THEN {Json(b) : b \in Bodies} ELSE {})
IsParsed(o) == o.kind = "json" /\ ~Falsy(o.json)

AnyField(r) ==
  \/ ~IsNullish(r.t2m_avg) \/ ~IsNullish(r.rh2m_avg)
  \/ ~IsNullish(r.precip_mm_day) \/ ~IsNullish(r.solar_mj_m2_day)

\* a test that looks at the temperature alone
Usable_temperatureOnly(r) == r # None /\ ~IsNullish(r[1].t2m_avg)
\* r && (r.t2m_avg != null || ...) (190, 196, 202)
Usable(r) == r # None /\ AnyField(r[1])

EmptyAcc == [t |-> <<>>, rh |-> <<>>, p |-> <<>>, s |-> <<>>]
\* 216-219
Push(a, rr) ==
  [t |-> IF ~IsNullish(rr.t2m_avg) THEN Append(a.t, rr.t2m_avg) ELSE a.t,
   rh |-> IF ~IsNullish(rr.rh2m_avg) THEN Append(a.rh, rr.rh2m_avg) ELSE a.rh,
   p |-> IF ~IsNullish(rr.precip_mm_day) THEN Append(a.p, rr.precip_mm_day) ELSE a.p,
   s |-> IF ~IsNullish(rr.solar_mj_m2_day) THEN Append(a.s, rr.solar_mj_m2_day) ELSE a.s]
\* a mean over all nine neighbor points
mean_overAllNeighbors(arr) ==
  IF Len(arr) > 0 THEN Div(SumSeq(arr), I(Len(NEIGHBOR_OFFSETS))) ELSE Null
\* 221
mean(arr) == IF Len(arr) > 0 THEN Div(SumSeq(arr), I(Len(arr))) ELSE Null
\* 222-228
Merged(a, community) ==
  [EmptyRecord EXCEPT
     !.t2m_avg = mean(a.t), !.rh2m_avg = mean(a.rh),
     !.precip_mm_day = mean(a.p), !.solar_mj_m2_day = mean(a.s),
     !.meta = Meta("neighbor-avg", community, 0)]

\* the call issued at a loop position
CallAt(c, ph, n, t) ==
  IF ph = "exact" THEN Call(lat, lon, COMMUNITIES[c], Cascade[t])
  ELSE Call(Add(lat, NEIGHBOR_OFFSETS[n][1]), Add(lon, NEIGHBOR_OFFSETS[n][2]),
            COMMUNITIES[c], Cascade[t])

\* The attempts of an invocation, in the order they are made: one per
\* exact-point call and one per neighbor phase.  res is what the attempt
\* yielded when that is a record with a non-null field, and None otherwise.
Attempt(c, source, window) ==
  [community |-> COMMUNITIES[c], source |-> source, window |-> window,
   done |-> FALSE, res |-> None]
ExactAttempt(c, t) == Attempt(c, Cascade[t].source, Cascade[t].window)
Yield(r) == IF r # None /\ AnyField(r[1]) THEN r ELSE None
Settle(r) ==
  [attempts EXCEPT ![Len(attempts)].done = TRUE, ![Len(attempts)].res = Yield(r)]

\* the call whose response the running step consumes (none at entry)
Awaited == IF pc = "fetching" THEN {CallAt(ci, phase, ni, ti)} ELSE {}
\* issue the call of position (c, ph, n, t) and suspend on it
Issue(c, ph, n, t) ==
  /\ ci' = c /\ phase' = ph /\ ni' = n /\ ti' = t
  /\ inflight' = (inflight \ Awaited) \cup {CallAt(c, ph, n, t)}
  /\ pc' = "fetching"
  /\ UNCHANGED <<rawPower, lat, lon>>

\* return rec to the caller
Return(rec) ==
  /\ rawPower' = rec
  /\ pc' = "fetched"
  /\ ci' = 0 /\ phase' = "done" /\ ni' = 0 /\ ti' = 0 /\ acc' = EmptyAcc
  /\ UNCHANGED <<lat, lon>>

\* an entry that starts the cascade without looking at lat and lon
fetch_enter_unchecked ==
  /\ pc = "fetch_entry"
  /\ Issue(1, "exact", 0, 1)
  /\ attempts' = <<ExactAttempt(1, 1)>>
  /\ UNCHANGED <<acc, parsed>>
  /\ UNCHANGED <<uiVars, unitVars, handlerVars>>
\* 183-184 and the first call of the cascade
fetch_enter ==
  /\ pc = "fetch_entry"
  /\ IF ~NumberIsFinite(lat) \/ ~NumberIsFinite(lon)
     THEN /\ Return(finalizeStrict(EmptyRecord))
          /\ UNCHANGED <<inflight, parsed, attempts>>
     ELSE /\ Issue(1, "exact", 0, 1)
          /\ attempts' = <<ExactAttempt(1, 1)>>
          /\ UNCHANGED <<acc, parsed>>
  /\ UNCHANGED <<uiVars, unitVars, handlerVars>>

\* the call in flight
Current == CallAt(ci, phase, ni, ti)

\* the response to the call in flight is consumed
Answered(o) ==
  /\ pc = "fetching"
  /\ o \in Outcomes
  /\ parsed' = IF IsParsed(o) THEN parsed + 1 ELSE parsed
  /\ UNCHANGED <<uiVars, unitVars, handlerVars>>

\* 188-205: an exact-point attempt yields a usable record r
ExactUsable(r) ==
  /\ phase = "exact"
  /\ Usable(r)
  /\ Return(finalizeStrict([r[1] EXCEPT !.community = COMMUNITIES[ci]]))
  /\ inflight' = {}
  /\ attempts' = Settle(r)
exact_usable == \E o \in Outcomes : Answered(o) /\ ExactUsable(Try(Current, o))

\* 188-208: it does not; the next attempt (or the neighbor phase) starts
ExactUnusable(r) ==
  /\ phase = "exact"
  /\ ~Usable(r)
  /\ IF ti < Len(Cascade)
     THEN /\ Issue(ci, "exact", 0, ti + 1)
          /\ attempts' = Append(Settle(r), ExactAttempt(ci, ti + 1))
          /\ acc' = acc
     ELSE /\ Issue(ci, "neighbor", 1, 1)
          /\ attempts' = Append(Settle(r), Attempt(ci, "neighbor-avg", 0))
          /\ acc' = EmptyAcc
exact_unusable == \E o \in Outcomes : Answered(o) /\ ExactUnusable(Try(Current, o))

\* after a neighbor's failed call the next window is skipped
NeighborNextWindow_skip(rr) ==
  /\ phase = "neighbor"
  /\ rr = None
  /\ ti < Len(Cascade)
  /\ Issue(ci, phase, ni, IF ti + 2 <= Len(Cascade) THEN ti + 2 ELSE ti + 1)
  /\ UNCHANGED <<acc, attempts>>
\* 212-214: a neighbor's call gives null and its cascade has a next window
NeighborNextWindow(rr) ==
  /\ phase = "neighbor"
  /\ rr = None
  /\ ti < Len(Cascade)
  /\ Issue(ci, phase, ni, ti + 1)
  /\ UNCHANGED <<acc, attempts>>
neighbor_next_window ==
  \E o \in Outcomes : Answered(o) /\ NeighborNextWindow(Try(Current, o))

\* the neighbor's cascade ends on this response: with rr (break), or with
\* null after climatology (continue)
NeighborEnds(rr) == phase = "neighbor" /\ (rr # None \/ ti = Len(Cascade))
AccAfter(rr) == IF rr # None THEN Push(acc, rr[1]) ELSE acc

\* 209-220: the next neighbor starts
NeighborNextPoint(rr) ==
  /\ NeighborEnds(rr)
  /\ ni < Len(NEIGHBOR_OFFSETS)
  /\ Issue(ci, phase, ni + 1, 1)
  /\ acc' = AccAfter(rr)
  /\ UNCHANGED attempts
neighbor_next_point ==
  \E o \in Outcomes : Answered(o) /\ NeighborNextPoint(Try(Current, o))

\* 221-231: the last neighbor is done and the merged record has a value
NeighborsMerged(merged) ==
  /\ ni = Len(NEIGHBOR_OFFSETS)
  /\ AnyField(merged)
  /\ Return(finalizeStrict(merged))
  /\ inflight' = {}
  /\ attempts' = Settle(Some(merged))
LastNeighbor(rr) == NeighborEnds(rr) /\ NeighborsMerged(Merged(AccAfter(rr), COMMUNITIES[ci]))
neighbors_merged == \E o \in Outcomes : Answered(o) /\ LastNeighbor(Try(Current, o))

\* the same community is started over
NextCommunity_again(merged) ==
  /\ ni = Len(NEIGHBOR_OFFSETS)
  /\ ~AnyField(merged)
  /\ ci < Len(COMMUNITIES)
  /\ Issue(ci, "exact", 0, 1)
  /\ acc' = EmptyAcc
  /\ attempts' = Append(Settle(None), ExactAttempt(ci, 1))
\* 229-232, 186: it has none; the next community starts
NextCommunity(merged) ==
  /\ ni = Len(NEIGHBOR_OFFSETS)
  /\ ~AnyField(merged)
  /\ ci < Len(COMMUNITIES)
  /\ Issue(ci + 1, "exact", 0, 1)
  /\ acc' = EmptyAcc
  /\ attempts' = Append(Settle(None), ExactAttempt(ci + 1, 1))
LastNeighborEmpty(rr) ==
  NeighborEnds(rr) /\ NextCommunity(Merged(AccAfter(rr), COMMUNITIES[ci]))
next_community == \E o \in Outcomes : Answered(o) /\ LastNeighborEmpty(Try(Current, o))

\* after the last category the empty merged record is finalized and returned
Exhausted_keepsMerged(merged) ==
  /\ ni = Len(NEIGHBOR_OFFSETS)
  /\ ~AnyField(merged)
  /\ ci = Len(COMMUNITIES)
  /\ Return(finalizeStrict(merged))
  /\ inflight' = {}
  /\ attempts' = Settle(None)
\* 234-235: nothing usable in any community
Exhausted(merged) ==
  /\ ni = Len(NEIGHBOR_OFFSETS)
  /\ ~AnyField(merged)
  /\ ci = Len(COMMUNITIES)
  /\ Return(finalizeStrict(EmptyRecord))
  /\ inflight' = {}
  /\ attempts' = Settle(None)
LastNeighborOfAll(rr) ==
  NeighborEnds(rr) /\ Exhausted(Merged(AccAfter(rr), COMMUNITIES[ci]))
fetch_exhausted == \E o \in Outcomes : Answered(o) /\ LastNeighborOfAll(Try(Current, o))

fetchPowerStrict ==
  \/ fetch_enter
  \/ exact_usable
  \/ exact_unusable
  \/ neighbor_next_window
  \/ neighbor_next_point
  \/ neighbors_merged
  \/ next_community
  \/ fetch_exhausted

\* fetchPowerStrict(lat, lon) called on its own, with any arguments
LatArgs == {Q(285, 10), NaN, NumStr(285, 10)}
LonArgs == {Q(771, 10), PosInf}
FetchIdle ==
  /\ ci = 0 /\ phase = "done" /\ ni = 0 /\ ti = 0 /\ acc = EmptyAcc
  /\ rawPower = EmptyRecord
  /\ inflight = {} /\ parsed = 0 /\ attempts = <<>>
UnitIdle == fn = "none" /\ arg = Null /\ ret = Null
HandlerIdle == openai = FALSE /\ power = EmptyRecord /\ res = NoResponse
InitFetch ==
  /\ UnitIdle /\ HandlerIdle /\ PageOff
  /\ pc = "fetch_entry" /\ lat \in LatArgs /\ lon \in LonArgs
  /\ FetchIdle
SpecFetch == InitFetch /\ [][fetchPowerStrict]_vars
\* Every upstream call eventually completes: the function suspended on an
\* await (or about to run) is resumed, and runs on to its next await or to
\* its return.  After each step of fetchPowerStrict the control position is
\* another one, so the steps of the function are the steps that resume it.
position == <<pc, ci, phase, ni, ti>>
Resumes ==
  /\ pc \in {"fetch_entry", "fetching"}
  /\ pc' \in {"fetching", "fetched"}
  /\ ci' \in 0 .. Len(COMMUNITIES) /\ phase' \in {"exact", "neighbor", "done"}
  /\ ni' \in 0 .. Len(NEIGHBOR_OFFSETS) /\ ti' \in 0 .. Len(Cascade)
SpecFetchLive == SpecFetch /\ WF_position(Resumes)

\* ------------------------------------------------------------ aiSanityCheckPower (server.js 242-303)
\* What a model call comes to: the call throws, or gives a text, of which
\* what matters is how it parses (281-287, 389-396):
\*   direct   JSON.parse(text) succeeds, giving data
\*   nomatch  it throws and the text has no {...} substring
\*   badmatch it throws and the {...} substring does not parse
\*   match    it throws and the {...} substring parses, giving data
Throws == [kind |-> "throw"]
Text(parse) == [kind |-> "text", parse |-> parse]
Direct(data) == [k |-> "direct", data |-> data]
NoMatch == [k |-> "nomatch"]
BadMatch == [k |-> "badmatch"]
Match(data) == [k |-> "match", data |-> data]
JsonNull == [k |-> "jnull"]

\* a ?? b
Coalesce(a, b) == IF IsNullish(a) THEN b ELSE a

\* { ...power, ai_notes } with provenance marked as AI-checked
usingPower_marked(pw, note) == [pw EXCEPT !.ai_notes = note, !.meta.ai = TRUE]
\* { ...power, ai_notes } (244, 284, 285, 301)
usingPower(pw, note) == [pw EXCEPT !.ai_notes = note]

\* 289-297
aiMerge(data, pw) ==
  [EmptyRecord EXCEPT
     !.t2m_avg = clamp(Number(Coalesce(data.t2m_avg, pw.t2m_avg)), I(-60), I(60)),
     !.rh2m_avg = clamp(Number(Coalesce(data.rh2m_avg, pw.rh2m_avg)), I(0), I(100)),
     !.precip_mm_day = nonneg(Number(Coalesce(data.precip_mm_day, pw.precip_mm_day))),
     !.solar_mj_m2_day = nonneg(Number(Coalesce(data.solar_mj_m2_day, pw.solar_mj_m2_day))),
     !.meta = [pw.meta EXCEPT !.ai = TRUE],
     !.ai_notes = IF data.notes # "" THEN data.notes ELSE "Checked; no change"]

\* a catch block that falls back to the defaults
aiCatch_defaults(pw) ==
  usingPower(finalizeStrict(EmptyRecord), "AI check failed; using POWER")
\* the catch block (299-302)
aiCatch(pw) == usingPower(pw, "AI check failed; using POWER")

\* a check that calls the service whether or not a client is configured
aiSanityCheckPower_alwaysCalls(client, pw, o) ==
  IF o.kind = "throw" THEN usingPower(pw, "AI check failed; using POWER")
  ELSE IF o.parse.k = "nomatch" THEN usingPower(pw, "AI non-JSON; using POWER")
  ELSE IF o.parse.k = "badmatch" THEN usingPower(pw, "AI malformed; using POWER")
  ELSE IF o.parse.data.k = "jnull" THEN usingPower(pw, "AI check failed; using POWER")
  ELSE aiMerge(o.parse.data, pw)
\* client: whether openai is configured; o: what the model call comes to.
\* Reading a field of JSON null throws, which the outer catch handles (299).
aiSanityCheckPower(client, pw, o) ==
  IF ~client THEN usingPower(pw, "AI off")
  ELSE IF o.kind = "throw" THEN aiCatch(pw)
  ELSE IF o.parse.k = "nomatch" THEN usingPower(pw, "AI non-JSON; using POWER")
  ELSE IF o.parse.k = "badmatch" THEN usingPower(pw, "AI malformed; using POWER")
  ELSE IF o.parse.data.k = "jnull" THEN aiCatch(pw)
  ELSE aiMerge(o.parse.data, pw)

\* objects the sanity-check model answers with
AiData ==
  {[k |-> "jobj", t2m_avg |-> t, rh2m_avg |-> rh, precip_mm_day |-> p,
    solar_mj_m2_day |-> so, notes |-> n] :
     t \in {Undef, I(-80), JunkStr}, rh \in {Undef, I(150)},
     p \in {Undef, PosInf}, so \in {Null, I(20)}, n \in {"", "Plausible"}}
AiOutcomes ==
  {Throws, Text(NoMatch), Text(BadMatch), Text(Direct(JsonNull))}
    \cup {Text(Direct(d)) : d \in AiData} \cup {Text(Match(d)) : d \in AiData}

\* ------------------------------------------------------------ POST /analyze-polygon (server.js 308-414)
\* JSON.stringify of a number: NaN and the infinities become null
JSONValue(v) == IF v.k \in {"nan", "inf"} THEN Null ELSE v
JSONPower(pw) ==
  [pw EXCEPT !.t2m_avg = JSONValue(@), !.rh2m_avg = JSONValue(@),
             !.precip_mm_day = JSONValue(@), !.solar_mj_m2_day = JSONValue(@)]

\* request bodies
Centroids ==
  {[lat |-> Undef, lon |-> Undef], [lat |-> Q(285, 10), lon |-> Q(771, 10)],
   [lat |-> NumStr(285, 10), lon |-> Q(771, 10)]}
Rings ==
  {<<>>, << <<JunkStr, JunkStr>> >>,
   << <<I(77), I(28)>>, <<Q(772, 10), I(28)>>, <<Q(772, 10), I(29)>>, <<I(77), I(28)>> >>}
Requests ==
  [type : {"Polygon", "Point", "absent"}, centroid : Centroids, ring : Rings]

\* ring.map(c => Number(c[i])).filter(Number.isFinite) (319-320)
Coords(ring, i) ==
  SelectSeq([j \in 1..Len(ring) |-> Number(ring[j][i])], NumberIsFinite)
\* Math.min(...xs), Math.max(...xs) of a non-empty xs
Least(xs) == xs[CHOOSE i \in 1..Len(xs) : \A j \in 1..Len(xs) : Le(xs[i], xs[j])]
Greatest(xs) == xs[CHOOSE i \in 1..Len(xs) : \A j \in 1..Len(xs) : Le(xs[j], xs[i])]
Midpoint(xs) == Div(Add(Least(xs), Greatest(xs)), I(2))
\* 314-325
representativePoint(body) ==
  IF NumberIsFinite(body.centroid.lat) /\ NumberIsFinite(body.centroid.lon)
  THEN body.centroid
  ELSE IF Len(Coords(body.ring, 1)) > 0 /\ Len(Coords(body.ring, 2)) > 0
       THEN [lat |-> Midpoint(Coords(body.ring, 2)), lon |-> Midpoint(Coords(body.ring, 1))]
       ELSE [lat |-> Null, lon |-> Null]

Error(status, error) == [status |-> status, error |-> error, body |-> NoBody]
\* res.json(data)
Ok(data) ==
  [status |-> 200, error |-> "",
   body |-> [data EXCEPT !.temperature_c = JSONValue(@),
                         !.humidity_relative_percent = JSONValue(@),
                         !.power = JSONPower(@)]]

\* 309-312: anything but a Polygon feature is refused
analyze_reject ==
  /\ pc = "idle"
  /\ \E body \in Requests : body.type # "Polygon"
  /\ res' = Error(400, "Expected GeoJSON Polygon Feature")
  /\ pc' = "responded"
  /\ UNCHANGED <<uiVars, unitVars, lat, lon, ci, phase, ni, ti, acc, rawPower, inflight,
                 parsed, attempts, openai, power>>

\* 314-331: the representative point; without one the defaults are used
AnalyzeAt(pt) ==
  /\ lat' = pt.lat /\ lon' = pt.lon
  /\ IF ~IsNullish(pt.lat) /\ ~IsNullish(pt.lon)
     THEN pc' = "fetch_entry" /\ rawPower' = rawPower
     ELSE pc' = "fetched" /\ rawPower' = finalizeStrict(EmptyRecord)
  /\ UNCHANGED <<uiVars, unitVars, ci, phase, ni, ti, acc, inflight, parsed, attempts,
                 handlerVars>>
analyze_begin ==
  /\ pc = "idle"
  /\ \E body \in Requests : body.type = "Polygon" /\ AnalyzeAt(representativePoint(body))

\* the mock label set (341-350)
mockLabels(pw) ==
  [country |-> "Unknown", crop |-> "rice", regional_popular_crop |-> "wheat",
   temperature_c |-> pw.t2m_avg, humidity_relative_percent |-> pw.rh2m_avg,
   soil_water_retention |-> "medium", power |-> pw]

\* 336-352: no model client
Mock(pw) == power' = pw /\ res' = Ok(mockLabels(pw))
respond_mock ==
  /\ pc = "fetched" /\ ~openai
  /\ Mock(aiSanityCheckPower(openai, rawPower, Throws))
  /\ pc' = "responded"
  /\ UNCHANGED <<uiVars, unitVars, fetchVars_but_pc, openai>>

\* 336, 270: the sanity-check call is issued
ai_request ==
  /\ pc = "fetched" /\ openai
  /\ pc' = "ai_wait"
  /\ UNCHANGED <<uiVars, unitVars, fetchVars_but_pc, handlerVars>>

\* 270-303, 375: it comes back; the label call is issued
ai_response ==
  /\ pc = "ai_wait"
  /\ \E o \in AiOutcomes : power' = aiSanityCheckPower(openai, rawPower, o)
  /\ pc' = "label_wait"
  /\ UNCHANGED <<uiVars, unitVars, fetchVars_but_pc, openai, res>>

\* objects the label model answers with
LabelData ==
  {[k |-> "jobj", country |-> c, crop |-> cr, regional_popular_crop |-> "wheat",
    temperature_c |-> t, humidity_relative_percent |-> I(5),
    soil_water_retention |-> "medium"] :
     c \in {"", "India"}, cr \in {"rice", "wheat"}, t \in {Undef, I(99)}}
LabelOutcomes ==
  {Throws, Text(NoMatch), Text(BadMatch), Text(Direct(JsonNull))}
    \cup {Text(Direct(d)) : d \in LabelData} \cup {Text(Match(d)) : d \in LabelData}

\* 398-401
validLabels(data) ==
  /\ data.country # ""
  /\ data.crop \in {"rice", "corn", "potato"}
  /\ data.soil_water_retention \in {"low", "medium", "high"}
  /\ data.regional_popular_crop # ""

\* labels that keep the model's temperature and humidity
labelled_keepModel(data, pw) ==
  [country |-> data.country, crop |-> data.crop,
   regional_popular_crop |-> data.regional_popular_crop,
   temperature_c |-> data.temperature_c,
   humidity_relative_percent |-> data.humidity_relative_percent,
   soil_water_retention |-> data.soil_water_retention, power |-> pw]
\* 403-406
labelled(data, pw) ==
  [country |-> data.country, crop |-> data.crop,
   regional_popular_crop |-> data.regional_popular_crop,
   temperature_c |-> pw.t2m_avg,
   humidity_relative_percent |-> pw.rh2m_avg,
   soil_water_retention |-> data.soil_water_retention, power |-> pw]

\* 375-412, on what the label call comes to
labelResponse(l, pw) ==
  IF l.kind = "throw" THEN Error(500, "AI/POWER analysis failed")
  ELSE IF l.parse.k = "nomatch" THEN Error(502, "Model did not return JSON")
  ELSE IF l.parse.k = "badmatch" THEN Error(502, "Model returned malformed JSON")
  ELSE IF l.parse.data.k = "jnull" THEN Error(500, "AI/POWER analysis failed")
  ELSE IF ~validLabels(l.parse.data) THEN Error(502, "Invalid schema from model")
  ELSE Ok(labelled(l.parse.data, pw))

label_response ==
  /\ pc = "label_wait"
  /\ \E l \in LabelOutcomes : res' = labelResponse(l, power)
  /\ pc' = "responded"
  /\ UNCHANGED <<uiVars, unitVars, fetchVars_but_pc, openai, power>>

Init ==
  /\ UnitIdle /\ PageOff
  /\ pc = "idle" /\ lat = Null /\ lon = Null /\ FetchIdle
  /\ openai \in BOOLEAN /\ power = EmptyRecord /\ res = NoResponse
Next ==
  \/ analyze_reject
  \/ analyze_begin
  \/ fetchPowerStrict
  \/ respond_mock
  \/ ai_request
  \/ ai_response
  \/ label_response
Spec == Init /\ [][Next]_vars

\* ------------------------------------------------------------ neighbor merge (server.js 209-231)
\* The merge as a function of the neighbors' resolved results rrs (None where
\* the neighbor's cascade gave null: "if (!rr) continue").
RECURSIVE Collect(_, _)
Collect(rrs, n) ==
  IF n = 0 THEN EmptyAcc
  ELSE IF rrs[n] = None THEN Collect(rrs, n - 1)
  ELSE Push(Collect(rrs, n - 1), rrs[n][1])
\* merged, and whether it is returned (229)
mergeNeighbors(rrs, community) ==
  [merged |-> Merged(Collect(rrs, Len(rrs)), community),
   used |-> AnyField(Merged(Collect(rrs, Len(rrs)), community))]

\* ------------------------------------------------------------ unit applications
\* Each of the three specifications below draws the argument of one pure
\* function from a bounded set and applies the function to it.
SeqsUpTo(S, n) == UNION {[1..m -> S] : m \in 0..n}
\* no request is being served
BackendOff == pc = "off" /\ lat = Null /\ lon = Null /\ FetchIdle /\ HandlerIdle
PipelineOff == BackendOff /\ PageOff

\* readings a POWER response can carry for one day or month
RawReadings ==
  {I(-999), Q(152, 10), EmptyStr, E20, Q(221, 10), Null, JunkStr, NumStr(7, 1)}
RawMappings == {Obj(v) : v \in SeqsUpTo(RawReadings, MaxRaw)} \cup {Undef}

InitSeries == PipelineOff /\ fn = "none" /\ arg \in RawMappings /\ ret = Null
Call_seriesFromParam ==
  /\ fn = "none"
  /\ fn' = "seriesFromParam"
  /\ ret' = seriesFromParam(arg)
  /\ UNCHANGED <<arg, fetchVars, handlerVars, uiVars>>
NextSeries == Call_seriesFromParam
SpecSeries == InitSeries /\ [][NextSeries]_vars

SampleReadings == {I(0), I(5), I(9), I(10), I(11), I(500)}
Samples == SeqsUpTo(SampleReadings, MaxLen)

InitTrim == PipelineOff /\ fn = "none" /\ arg \in Samples /\ ret = Null
Call_trimMeanArr ==
  /\ fn = "none"
  /\ fn' = "trimMeanArr"
  /\ ret' = trimMeanArr(arg, LoQ, HiQ)
  /\ UNCHANGED <<arg, fetchVars, handlerVars, uiVars>>
NextTrim == Call_trimMeanArr
SpecTrim == InitTrim /\ [][NextTrim]_vars

Candidates ==
  {[EmptyRecord EXCEPT !.t2m_avg = t, !.rh2m_avg = rh, !.precip_mm_day = p,
                       !.solar_mj_m2_day = s, !.meta = m, !.community = m.community] :
     t \in {Undef, Null, I(-70), I(25), PosInf, JunkStr},
     rh \in {Undef, Null, I(150), I(55)},
     p \in {Undef, Null, I(-3), I(4), I(12), NaN},
     s \in {Undef, Null, I(0), I(20), I(65), I(100)},
     m \in {NoMeta, Meta("neighbor-avg", "RE", 0)}}

InitFinalize == PipelineOff /\ fn = "none" /\ arg \in Candidates /\ ret = Null
Call_finalizeStrict ==
  /\ fn = "none"
  /\ fn' = "finalizeStrict"
  /\ ret' = finalizeStrict(arg)
  /\ UNCHANGED <<arg, fetchVars, handlerVars, uiVars>>
NextFinalize == Call_finalizeStrict
SpecFinalize == InitFinalize /\ [][NextFinalize]_vars

AiPowers ==
  {finalizeStrict(EmptyRecord),
   finalizeStrict([EmptyRecord EXCEPT !.t2m_avg = I(25), !.rh2m_avg = I(55),
                                      !.precip_mm_day = I(4), !.solar_mj_m2_day = I(20),
                                      !.meta = Meta("daily", "AG", 30),
                                      !.community = "AG"]),
   finalizeStrict([EmptyRecord EXCEPT !.solar_mj_m2_day = I(20),
                                      !.meta = Meta("neighbor-avg", "RE", 0)])}
AiCalls == [client : BOOLEAN, power : AiPowers, outcome : AiOutcomes]

InitAi == PipelineOff /\ fn = "none" /\ arg \in AiCalls /\ ret = Null
Call_aiSanityCheckPower ==
  /\ fn = "none"
  /\ fn' = "aiSanityCheckPower"
  /\ ret' = aiSanityCheckPower(arg.client, arg.power, arg.outcome)
  /\ UNCHANGED <<arg, fetchVars, handlerVars, uiVars>>
NextAi == Call_aiSanityCheckPower
SpecAi == InitAi /\ [][NextAi]_vars

\* raw mappings of one variable in a daily or monthly response: missing,
\* masked out entirely, one reading, two distinct readings, three readings
SummaryMappings ==
  {Undef, Obj(<<I(-999)>>), Obj(<<I(10)>>), Obj(<<I(10), I(30)>>),
   Obj(<<I(10), I(20), I(90)>>)}
SummaryBodies ==
  {Body(t, rh, p, so) :
     t \in SummaryMappings, rh \in SummaryMappings,
     p \in SummaryMappings, so \in SummaryMappings}

InitSummarize == PipelineOff /\ fn = "none" /\ arg \in SummaryBodies /\ ret = Null
Call_summarizeDailyMonthly ==
  /\ fn = "none"
  /\ fn' = "summarizeDailyMonthly"
  /\ ret' = summarizeDailyMonthly(arg)
  /\ UNCHANGED <<arg, fetchVars, handlerVars, uiVars>>
NextSummarize == Call_summarizeDailyMonthly
SpecSummarize == InitSummarize /\ [][NextSummarize]_vars

\* resolved results of a neighbor
NeighborRecords ==
  {[EmptyRecord EXCEPT !.t2m_avg = t, !.rh2m_avg = Null, !.precip_mm_day = p,
                       !.solar_mj_m2_day = so, !.meta = Meta("daily", "AG", 30)] :
     t \in {Null, I(10), I(20)}, p \in {Null, I(4)}, so \in {Null, I(0)}}
NeighborResults == {None} \cup {Some(r) : r \in NeighborRecords}

InitNeighbors ==
  PipelineOff /\ fn = "none" /\ arg \in SeqsUpTo(NeighborResults, MaxNeighbors) /\ ret = Null
Call_mergeNeighbors ==
  /\ fn = "none"
  /\ fn' = "mergeNeighbors"
  /\ ret' = mergeNeighbors(arg, "AG")
  /\ UNCHANGED <<arg, fetchVars, handlerVars, uiVars>>
NextNeighbors == Call_mergeNeighbors
SpecNeighbors == InitNeighbors /\ [][NextNeighbors]_vars

\* the page on its own
InitUi == BackendOff /\ UnitIdle /\ PageLoaded
NextUi ==
  \/ click_start
  \/ click_undo
  \/ click_reset
  \/ key_s
  \/ key_u
  \/ key_r
  \/ tab_click
  \/ map_click
  \/ analyze_response
  \/ series_response
SpecUi == InitUi /\ [][NextUi]_vars

\* ============================================================ properties
\* ------------------------------------------------------------ seriesFromParam
\* a reading the specification calls missing: an empty value, a sentinel
\* code, or one that is not a finite number
IsSentinel(x) == x.k = "e20" \/ (x.k = "num" /\ x.d = 1 /\ x.n \in {-999, -9999, -99})
IsMissingReading(v) ==
  \/ v.k \in {"empty", "null", "undef"}
  \/ IsSentinel(Number(v))
  \/ ~NumberIsFinite(Number(v))
ValidReadings(paramObj) ==
  MapSeq(SelectSeq(ObjectValues(paramObj), LAMBDA v : ~IsMissingReading(v)), Number)

\* C2: seriesFromParam returns exactly the readings that are finite numbers
\* and not missing markers (empty value, sentinel code, non-finite), each as
\* its numeric value, in order.
C2_ExactlyValidReadings ==
  fn = "seriesFromParam" => ret = ValidReadings(arg)

\* ------------------------------------------------------------ finalizeStrict
Fields4(r) == <<r.t2m_avg, r.rh2m_avg, r.precip_mm_day, r.solar_mj_m2_day>>

\* C3 (as stated): finalizing the fully empty candidate yields exactly
\* 20, 60, 2, 18.
C3_EmptyYieldsLiteralDefaults ==
  (fn = "finalizeStrict" /\ arg = EmptyRecord) =>
    Fields4(ret) = <<I(20), I(60), I(2), I(18)>>

\* C3 (amended): finalizing the fully empty candidate yields 20, 60, 2 and
\* solar 15, the estimate (20 - 8) / 0.8 from the imputed temperature.
C3_EmptyYieldsDerivedSolar ==
  (fn = "finalizeStrict" /\ arg = EmptyRecord) =>
    Fields4(ret) = <<I(20), I(60), I(2), I(15)>>

C3_Witness == fn = "finalizeStrict" /\ arg = EmptyRecord /\ ret.precip_mm_day = I(2)

\* C9: solar s >= 0 present, temperature, humidity and precipitation absent:
\* the result is t = clamp(8 + 0.8 s, -60, 60), rh = 60, precip = 2, solar = s.
SolarOnly(r) ==
  /\ r.solar_mj_m2_day.k = "num" /\ r.solar_mj_m2_day.n >= 0
  /\ IsNullish(r.t2m_avg) /\ IsNullish(r.rh2m_avg) /\ IsNullish(r.precip_mm_day)
\* 8 + 0.8 s = (40 d + 4 n) / (5 d), capped at 60 (it is at least 8)
TempFromSolar(s) ==
  IF 40 * s.d + 4 * s.n > 300 * s.d THEN I(60) ELSE Q(40 * s.d + 4 * s.n, 5 * s.d)
C9_SolarOnly ==
  (fn = "finalizeStrict" /\ SolarOnly(arg)) =>
    Fields4(ret) = <<TempFromSolar(arg.solar_mj_m2_day), I(60), I(2), arg.solar_mj_m2_day>>

C9_Witness ==
  /\ fn = "finalizeStrict" /\ SolarOnly(arg)
  /\ arg.solar_mj_m2_day = I(20) /\ ret.t2m_avg = I(24)

\* ------------------------------------------------------------ trimMeanArr
Mean(a) == Div(SumSeq(a), I(Len(a)))
HasDominantMax(a) ==
  /\ Len(a) >= 3
  /\ \E i \in 1..Len(a) : \A j \in 1..Len(a) : j # i => Lt(a[j], a[i])
MaxOf(a) == a[CHOOSE i \in 1..Len(a) : \A j \in 1..Len(a) : Le(a[j], a[i])]
InSeq(x, s) == \E i \in 1..Len(s) : s[i] = x
MaxDiscarded(a, r) ==
  /\ ~InSeq(MaxOf(a), trimRetained(a, LoQ, HiQ))
  /\ r.k = "num"
  /\ Lt(r, MaxOf(a))
  /\ Le(quantile(a, LoQ), r) /\ Le(r, quantile(a, HiQ))

NoneBelowLow(a) == \A i \in 1..Len(a) : Le(quantile(a, LoQ), a[i])
Finalized(r) ==
  /\ NumberIsFinite(r.t2m_avg) /\ Le(I(-60), r.t2m_avg) /\ Le(r.t2m_avg, I(60))
  /\ NumberIsFinite(r.rh2m_avg) /\ Le(I(0), r.rh2m_avg) /\ Le(r.rh2m_avg, I(100))
  /\ NumberIsFinite(r.precip_mm_day) /\ Le(I(0), r.precip_mm_day)
  /\ NumberIsFinite(r.solar_mj_m2_day) /\ Le(I(0), r.solar_mj_m2_day)

\* C1: whatever lat/lon and whatever the upstream outcomes, the record
\* fetchPowerStrict returns has all four fields present and finite, with
\* temperature in [-60, 60], humidity in [0, 100], precipitation and solar
\* non-negative.
C1_ReturnedRecordFinalized == pc = "fetched" => Finalized(rawPower)

\* an exact-point attempt that came back with a record holding a value
UsableExact(j) ==
  /\ attempts[j].source # "neighbor-avg"
  /\ attempts[j].done
  /\ attempts[j].res # None

\* C4: once an exact-point attempt has returned a record with a non-null
\* field, it is the last attempt of the invocation, no upstream call is in
\* flight or issued after it, and the returned record is the finalization
\* of that attempt's record.
C4_ShortCircuit ==
  \A j \in 1..Len(attempts) :
    UsableExact(j) =>
      /\ j = Len(attempts)
      /\ pc \notin {"fetch_entry", "fetching"}
      /\ inflight = {}
      /\ Fields4(rawPower) = Fields4(finalizeStrict(attempts[j].res[1]))
      /\ rawPower.meta = attempts[j].res[1].meta

C4_Witness ==
  /\ pc = "fetched"
  /\ Len(attempts) = 3
  /\ UsableExact(3)
  /\ IsNullish(attempts[3].res[1].t2m_avg)
  /\ attempts[3].res[1].solar_mj_m2_day = I(20)
  /\ rawPower.t2m_avg = I(24)

\* the order of attempts within a category, and of the categories
StepOrder ==
  << <<"daily", 30>>, <<"daily", 60>>, <<"daily", 90>>, <<"daily", 180>>,
     <<"daily", 365>>, <<"monthly", 24>>, <<"monthly", 60>>, <<"monthly", 120>>,
     <<"climatology", 12>>, <<"neighbor-avg", 0>> >>
CategoryOrder == <<"AG", "RE", "SB">>
InOrder(j) ==
  /\ attempts[j].community = CategoryOrder[((j - 1) \div Len(StepOrder)) + 1]
  /\ attempts[j].source = StepOrder[((j - 1) % Len(StepOrder)) + 1][1]
  /\ attempts[j].window = StepOrder[((j - 1) % Len(StepOrder)) + 1][2]

\* C5: the attempts of an invocation follow the order daily 30, 60, 90, 180,
\* 365, monthly 24, 60, 120, climatology, neighbor phase, within AG, then RE,
\* then SB; every attempt but the last has completed without a usable
\* record; at most one upstream call is in flight, and it belongs to the
\* last attempt.
C5_AttemptOrder ==
  /\ Len(attempts) <= Len(StepOrder) * Len(CategoryOrder)
  /\ \A j \in 1..Len(attempts) : InOrder(j)
  /\ \A j \in 1..(Len(attempts) - 1) : attempts[j].done /\ attempts[j].res = None
  /\ Cardinality(inflight) <= 1
  /\ \A c \in inflight :
       /\ ~attempts[Len(attempts)].done
       /\ c.community = attempts[Len(attempts)].community
       /\ attempts[Len(attempts)].source # "neighbor-avg" =>
            /\ c.source = attempts[Len(attempts)].source
            /\ c.window = attempts[Len(attempts)].window
            /\ c.lat = lat /\ c.lon = lon

C5_Witness ==
  /\ pc = "fetching"
  /\ Len(attempts) = 12
  /\ attempts[10].source = "neighbor-avg" /\ attempts[10].done
  /\ attempts[12].community = "RE" /\ attempts[12].window = 60
  /\ Cardinality(inflight) = 1

\* ------------------------------------------------------------ aiSanityCheckPower
\* the service's text gave a parsed object
ParsedObject(o) ==
  o.kind = "text" /\ o.parse.k \in {"direct", "match"} /\ o.parse.data.k = "jobj"
\* the text does not parse, and neither does a brace-delimited substring
Unparsable(o) == o.kind = "text" /\ o.parse.k \in {"nomatch", "badmatch"}

\* C6: whenever aiSanityCheckPower obtains a parsed response object, whatever
\* its four numeric fields hold, the returned record has temperature finite
\* in [-60, 60], humidity finite in [0, 100], precipitation and solar finite
\* and non-negative.
C6_MergeKeepsInvariant ==
  (fn = "aiSanityCheckPower" /\ arg.client /\ ParsedObject(arg.outcome)) =>
    Finalized(ret)

\* C7: when the text is unparsable, aiSanityCheckPower returns the
\* pre-refinement record with the four fields and the provenance unchanged,
\* plus an annotation; the annotations for service off, malformed output and
\* call failed are pairwise distinct.
NotesOff(pw) == aiSanityCheckPower(FALSE, pw, Throws).ai_notes
NotesFailed(pw) == aiSanityCheckPower(TRUE, pw, Throws).ai_notes
C7_MalformedKeepsPower ==
  (fn = "aiSanityCheckPower" /\ arg.client /\ Unparsable(arg.outcome)) =>
    /\ Fields4(ret) = Fields4(arg.power)
    /\ ret.meta = arg.power.meta
    /\ ret.community = arg.power.community
    /\ ret.ai_notes # "absent"
    /\ ret.ai_notes # NotesOff(arg.power)
    /\ ret.ai_notes # NotesFailed(arg.power)
    /\ NotesOff(arg.power) # NotesFailed(arg.power)

C7_Witness ==
  /\ fn = "aiSanityCheckPower" /\ arg.client
  /\ arg.outcome = Text(BadMatch)
  /\ arg.power.meta.source = "daily"
  /\ ret.ai_notes = "AI malformed; using POWER"
  /\ ret.t2m_avg = I(25)

\* ------------------------------------------------------------ /analyze-polygon
\* C8: in every successful response temperature_c equals power.t2m_avg and
\* humidity_relative_percent equals power.rh2m_avg of the same response,
\* with or without a model client and whatever the label model returned.
C8_TemperatureFromPower ==
  (pc = "responded" /\ res.status = 200) =>
    /\ res.body.temperature_c = res.body.power.t2m_avg
    /\ res.body.humidity_relative_percent = res.body.power.rh2m_avg

C8_Witness ==
  /\ pc = "responded" /\ res.status = 200 /\ openai
  /\ res.body.country = "India"
  /\ res.body.power.meta.ai
  /\ res.body.temperature_c = res.body.power.t2m_avg
  /\ res.body.humidity_relative_percent # I(5)

\* ------------------------------------------------------------ upstream failures
\* the position after (ci, phase, ni, ti) in the cascade order: next window or
\* tier, then the neighbor phase, next neighbor, next category
NextPosition ==
  IF ti < 9 THEN <<ci, phase, ni, ti + 1>>
  ELSE IF phase = "exact" THEN <<ci, "neighbor", 1, 1>>
  ELSE IF ni < 9 THEN <<ci, "neighbor", ni + 1, 1>>
  ELSE <<ci + 1, "exact", 0, 1>>
\* the neighbor phase of the category ends on this response
PhaseEnds == phase = "neighbor" /\ ni = 9 /\ ti = 9
NothingCollected == acc.t = <<>> /\ acc.rh = <<>> /\ acc.p = <<>> /\ acc.s = <<>>

\* C11: a call that ends in a transport failure, a non-success status or an
\* unparsable body (no parsed body is counted) is not fatal: the invocation
\* goes on with the next attempt in the cascade order, with that call in
\* flight, and returns only when the last neighbor of a category was the
\* failing call (the merged record, or the defaults after the last category).
C11_FailureProceeds ==
  [][(pc = "fetching" /\ parsed' = parsed) =>
       IF PhaseEnds /\ (~NothingCollected \/ ci = 3)
       THEN pc' = "fetched" /\ inflight' = {}
       ELSE /\ pc' = "fetching"
            /\ <<ci', phase', ni', ti'>> = NextPosition
            /\ inflight' = {CallAt(ci', phase', ni', ti')}]_vars

C11_Witness ==
  /\ pc = "fetching" /\ parsed = 0
  /\ phase = "neighbor" /\ ni = 2 /\ ti = 6
  /\ Len(attempts) = 10 /\ attempts[9].done /\ attempts[9].res = None

\* ------------------------------------------------------------ the check without a client
\* C12: without a client aiSanityCheckPower issues no call (its result is
\* the same whatever the service would have answered) and returns the
\* finalized record with every field unchanged, adding only the annotation
\* "AI off".
C12_OffKeepsRecord ==
  (fn = "aiSanityCheckPower" /\ ~arg.client) =>
    /\ Fields4(ret) = Fields4(arg.power)
    /\ ret.meta = arg.power.meta
    /\ ret.community = arg.power.community
    /\ ret.ai_notes = "AI off"
    /\ \A o \in AiOutcomes : aiSanityCheckPower(arg.client, arg.power, o) = ret

C12_Witness ==
  /\ fn = "aiSanityCheckPower" /\ ~arg.client
  /\ ParsedObject(arg.outcome) /\ arg.outcome.parse.data.rh2m_avg = I(150)
  /\ arg.power.meta.source = "neighbor-avg"
  /\ ret.ai_notes = "AI off" /\ ret.rh2m_avg = I(60)

\* ------------------------------------------------------------ the handler without a client
\* the request was refused as not being a Polygon feature (310-312)
NotAPolygon == res.status = 400 /\ res.error = "Expected GeoJSON Polygon Feature"

\* C13: with no model client, every request for a Polygon is answered with
\* a success response whose power record has all four fields populated
\* (finite numbers), whatever the climate service did and whether or not a
\* representative point could be derived.
C13_NoClientAlwaysPopulated ==
  (pc = "responded" /\ ~openai /\ ~NotAPolygon) =>
    /\ res.status = 200
    /\ Finalized(res.body.power)

\* ------------------------------------------------------------ repeated requests
\* the request of the j-th attempt, an exact-point attempt that completed
RequestOf(j) ==
  [lat |-> lat, lon |-> lon, community |-> attempts[j].community,
   source |-> attempts[j].source, window |-> attempts[j].window]
\* neighbor positions of the current category that precede (ni, ti)
Earlier(n, t) == n < ni \/ (n = ni /\ t < ti)

\* C14: the request in flight was not issued before in this invocation:
\* it differs, in (latitude, longitude, category, tier, window), from the
\* request of every completed exact-point attempt and from every request of
\* an earlier position of the neighbor phase.
C14_NoRepeatedRequest ==
  \A c \in inflight :
    /\ \A j \in 1..Len(attempts) :
         (attempts[j].source # "neighbor-avg" /\ attempts[j].done) => RequestOf(j) # c
    /\ phase = "neighbor" =>
         \A n \in 1..9, t \in 1..9 : Earlier(n, t) => CallAt(ci, "neighbor", n, t) # c

\* ------------------------------------------------------------ the neighbor cascade
\* a neighbor before the last one gets a parsed response, on a window or
\* tier that is not the last of its cascade
NeighborParsed ==
  /\ pc = "fetching" /\ phase = "neighbor" /\ ni < 9 /\ ti < 9
  /\ parsed' = parsed + 1

\* C15: a neighbor's cascade stops at the first attempt that yields a
\* non-missing field (a value is collected and the next neighbor starts);
\* a parsed response with all four fields missing (nothing is collected)
\* does not end it: the next window or tier is tried for the same neighbor.
C15_NeighborStopsAtFirstValue ==
  [][NeighborParsed =>
       /\ pc' = "fetching" /\ ci' = ci /\ phase' = phase
       /\ IF acc' # acc
          THEN ni' = ni + 1 /\ ti' = 1
          ELSE ni' = ni /\ ti' = ti + 1]_vars

\* ------------------------------------------------------------ summarizeDailyMonthly
\* the trimmed mean of a variable's cleaned sample
TrimmedMeanOf(paramObj) == trimMeanArr(seriesFromParam(paramObj), LoQ, HiQ)
\* a summarized value v of a variable: missing when the trimmed mean has no
\* value, and otherwise a number
KeepsNoValue(paramObj, v) ==
  IF IsNullish(TrimmedMeanOf(paramObj)) THEN v = Null ELSE NumberIsFinite(v)

\* C16: whenever trimMeanArr yields no value for a variable (empty cleaned
\* sample, or empty retained subset), summarizeDailyMonthly reports the
\* variable as null; a non-null summarized value comes from at least one
\* retained reading.
C16_NoValueStaysMissing ==
  fn = "summarizeDailyMonthly" =>
    /\ KeepsNoValue(arg.parameter.T2M, ret.t2m_avg)
    /\ KeepsNoValue(arg.parameter.RH2M, ret.rh2m_avg)
    /\ KeepsNoValue(arg.parameter.PRECTOTCORR, ret.precip_mm_day)
    /\ KeepsNoValue(arg.parameter.ALLSKY_SFC_SW_DWN, ret.solar_mj_m2_day)

\* ------------------------------------------------------------ neighbor merge
\* the values of one variable over the neighbors that produced it, in order
Produced(rrs, f) ==
  LET hit == SelectSeq([i \in 1..Len(rrs) |-> i],
                       LAMBDA i : rrs[i] # None /\ ~IsNullish(rrs[i][1][f]))
  IN [k \in 1..Len(hit) |-> rrs[hit[k]][1][f]]
MeanOrAbsent(vals) == IF vals = <<>> THEN Null ELSE Mean(vals)
Variables4 == {"t2m_avg", "rh2m_avg", "precip_mm_day", "solar_mj_m2_day"}

\* C17: the merged value of each variable is the arithmetic mean over
\* exactly the neighbors that produced a non-null value for it, per variable
\* independently, and absent when none did; the merged candidate is used
\* iff at least one variable is non-null.
C17_NeighborAveraging ==
  fn = "mergeNeighbors" =>
    /\ \A f \in Variables4 : ret.merged[f] = MeanOrAbsent(Produced(arg, f))
    /\ ret.used <=> \E f \in Variables4 : Produced(arg, f) # <<>>
    /\ ret.merged.meta.source = "neighbor-avg"

C17_Witness ==
  /\ fn = "mergeNeighbors" /\ Len(arg) = 3
  /\ Produced(arg, "t2m_avg") = <<I(10), I(20)>>
  /\ Produced(arg, "precip_mm_day") = <<I(4)>>
  /\ Produced(arg, "solar_mj_m2_day") = <<>>
  /\ ret.merged.t2m_avg = I(15) /\ ret.merged.precip_mm_day = I(4)
  /\ ret.merged.solar_mj_m2_day = Null /\ ret.used

\* ------------------------------------------------------------ exhaustion
\* every attempt of every tier in all three categories is done, none with a
\* usable value
AllExhausted ==
  /\ Len(attempts) = 30
  /\ \A j \in 1..Len(attempts) : attempts[j].done /\ attempts[j].res = None

\* C18: when every attempt of every tier in all three categories yields no
\* usable value, the returned record is finalizeStrict of the fully empty
\* candidate: all four fields imputed, no provenance metadata.
C18_ExhaustedGivesDefaults ==
  (pc = "fetched" /\ AllExhausted) =>
    /\ rawPower = finalizeStrict(EmptyRecord)
    /\ rawPower.meta = NoMeta /\ rawPower.community = "absent"
    /\ \A f \in Variables4 : NumberIsFinite(rawPower[f])

C18_Witness ==
  /\ pc = "fetched" /\ AllExhausted
  /\ attempts[30].community = "SB" /\ attempts[30].source = "neighbor-avg"
  /\ parsed = 2
  /\ rawPower.t2m_avg = I(20)

\* ------------------------------------------------------------ invalid point
\* lat or lon is not a finite number (a missing point is null, null)
InvalidPoint == ~NumberIsFinite(lat) \/ ~NumberIsFinite(lon)

\* C19: when lat or lon is not a finite number, or the handler derives no
\* representative point, no upstream call is issued at all (none in flight,
\* no attempt, no response consumed) and the climate record is exactly
\* finalizeStrict of the empty candidate.
C19_InvalidPointShortCircuit ==
  (InvalidPoint /\ pc \notin {"off", "idle"} /\ ~NotAPolygon) =>
    /\ inflight = {} /\ attempts = <<>> /\ parsed = 0
    /\ pc # "fetch_entry" => rawPower = finalizeStrict(EmptyRecord)

C19_Witness ==
  /\ pc = "fetched"
  /\ lat = NumStr(285, 10) /\ lon = Q(771, 10)
  /\ attempts = <<>> /\ inflight = {}
  /\ Fields4(rawPower) = <<I(20), I(60), I(2), I(15)>>

\* the same through the handler: no point can be derived from the request
C19_WitnessNoPoint ==
  /\ pc = "responded" /\ res.status = 200
  /\ lat = Null /\ lon = Null
  /\ attempts = <<>>
  /\ Fields4(rawPower) = <<I(20), I(60), I(2), I(15)>>

\* ------------------------------------------------------------ exceptions in the check
\* the call throws, or the parsed response is JSON null (reading its fields
\* throws)
RaisesException(o) ==
  \/ o.kind = "throw"
  \/ o.kind = "text" /\ o.parse.k \in {"direct", "match"} /\ o.parse.data.k = "jnull"

\* C20: an exception while calling the service or processing its response
\* is caught: aiSanityCheckPower returns a record with the four fields and
\* the provenance of the pre-refinement record unchanged, the same record as
\* in the service-unavailable case except for the annotation.
C20_ExceptionKeepsPower ==
  (fn = "aiSanityCheckPower" /\ arg.client /\ RaisesException(arg.outcome)) =>
    /\ Fields4(ret) = Fields4(arg.power)
    /\ ret.meta = arg.power.meta
    /\ ret.ai_notes # NotesOff(arg.power)
    /\ [ret EXCEPT !.ai_notes = NotesOff(arg.power)] =
         aiSanityCheckPower(FALSE, arg.power, arg.outcome)

C20_Witness ==
  /\ fn = "aiSanityCheckPower" /\ arg.client
  /\ arg.outcome = Text(Direct(JsonNull))
  /\ arg.power.meta.source = "daily"
  /\ ret.ai_notes = "AI check failed; using POWER"
  /\ ret.rh2m_avg = I(55) /\ ~ret.meta.ai

\* ------------------------------------------------------------ missing solar
\* the temperature after the clamp pass and the temperature imputation, for a
\* candidate without solar: the present one clamped, or the default 20
TemperatureThen(r) ==
  IF IsNullish(r.t2m_avg) THEN I(20) ELSE clamp(Number(r.t2m_avg), I(-60), I(60))
SolarEstimate(r) == Div(Sub(TemperatureThen(r), I(8)), Q(4, 5))

\* C21: for every candidate without solar, the finalized solar is
\* max(0, (T - 8) / 0.8), T being the temperature after the clamp pass and
\* the temperature imputation; 18 is used only when that estimate is not a
\* finite number.
C21_MissingSolarDerived ==
  (fn = "finalizeStrict" /\ IsNullish(arg.solar_mj_m2_day)) =>
    IF NumberIsFinite(SolarEstimate(arg))
    THEN ret.solar_mj_m2_day = MathMax(I(0), SolarEstimate(arg))
    ELSE ret.solar_mj_m2_day = I(18)

C21_Witness ==
  /\ fn = "finalizeStrict"
  /\ arg.solar_mj_m2_day = Undef /\ arg.t2m_avg = I(25)
  /\ ret.solar_mj_m2_day = Q(85, 4)

\* ------------------------------------------------------------ termination
\* the number of the position (ci, phase, ni, ti) in the cascade order: each
\* category has 5 + 3 + 1 exact-point positions and 9 x (5 + 3 + 1) neighbor
\* positions
Rank ==
  (ci - 1) * (9 + 9 * 9) + (IF phase = "exact" THEN ti ELSE 9 + (ni - 1) * 9 + ti)

\* C22: provided every upstream call eventually completes, an invocation of
\* fetchPowerStrict eventually returns, after at most 270 upstream calls:
\* the first call has rank 1, every further call is issued at a strictly
\* higher rank, one at a time, and no rank exceeds 270.
C22_ReturnsWithin270Calls ==
  /\ [](pc = "fetching" => (Rank <= 270 /\ Cardinality(inflight) = 1))
  /\ [][(pc = "fetch_entry" /\ pc' = "fetching") => Rank' = 1]_vars
  /\ [][(pc = "fetching" /\ pc' = "fetching") => Rank' > Rank]_vars
  /\ <>(pc = "fetched")

C22_Witness ==
  /\ pc = "fetching"
  /\ ci = 3 /\ phase = "neighbor" /\ ni = 9 /\ ti = 9
  /\ Rank = 270

\* ------------------------------------------------------------ finalizeStrict, applied twice
Numeric(v) == v.k \in {"num", "big", "e20", "nan", "inf"}
NumericOrAbsent(r) ==
  \A i \in 1..4 : IsNullish(Fields4(r)[i]) \/ Numeric(Fields4(r)[i])
\* the physical ranges: temperature, humidity, precipitation, solar
WithinRange(i, v) ==
  /\ NumberIsFinite(v)
  /\ CASE i = 1 -> Le(I(-60), v) /\ Le(v, I(60))
       [] i = 2 -> Le(I(0), v) /\ Le(v, I(100))
       [] OTHER -> Le(I(0), v)

\* C23: for a candidate with numeric or absent fields, finalizing the result
\* again gives the same result; a field that is present and within its
\* physical range is unchanged; community and meta pass through; and the
\* call leaves its argument as it was.
C23_IdempotentAndConservative ==
  /\ []((fn = "finalizeStrict" /\ NumericOrAbsent(arg)) =>
          /\ finalizeStrict(ret) = ret
          /\ \A i \in 1..4 :
               (~IsNullish(Fields4(arg)[i]) /\ WithinRange(i, Fields4(arg)[i])) =>
                 Fields4(ret)[i] = Fields4(arg)[i]
          /\ ret.meta = arg.meta /\ ret.community = arg.community)
  /\ [][fn' = "finalizeStrict" => arg' = arg]_vars

C23_Witness ==
  /\ fn = "finalizeStrict"
  /\ Fields4(arg) = <<I(25), Undef, I(4), I(65)>>
  /\ arg.meta = Meta("neighbor-avg", "RE", 0)
  /\ Fields4(ret) = <<I(25), I(64), I(4), I(65)>>
  /\ ret.meta = arg.meta

\* ------------------------------------------------------------ the polygon tool
\* every point has its marker, numbered by its place
MarkersOfPoints ==
  /\ Len(markers) = Len(points)
  /\ \A i \in 1..Len(points) : markers[i] = circleMarker(points[i], i)

\* C24: while selecting with n >= 1 points placed, one click on the Undo
\* button removes exactly the last point and its marker, leaving n - 1
\* points; the markers are always those of the points, which are never more
\* than 4.
C24_UndoRemovesOnePoint ==
  /\ [](MarkersOfPoints /\ Len(points) <= 4)
  /\ [][(click_undo /\ selecting /\ Len(points) >= 1) =>
          /\ points' = Front(points)
          /\ markers' = Front(markers)
          /\ Len(points') = Len(points) - 1]_vars

\* an undo has taken the second of two points away
C24_Witness ==
  /\ selecting /\ ~disabled.undoBtn
  /\ Len(points) = 1 /\ Len(markers) = 1
  /\ statusEl = PointPlaced[2]

\* ------------------------------------------------------------ the completed polygon
\* Start or Reset, by button or by key
StartOrReset == click_start \/ key_s \/ click_reset \/ key_r

\* C25: once the polygon is drawn (selecting = false), no step other than
\* Start or Reset changes the stored points or markers or adds a dashed
\* polyline; a polygon and a temporary polyline are never displayed together.
C25_CompletedPolygonStable ==
  /\ [][(poly # NullLayer /\ ~selecting /\ ~StartOrReset) =>
          (points' = points /\ markers' = markers /\ line' = NullLayer)]_vars
  /\ [](~(poly # NullLayer /\ line # NullLayer))

\* ------------------------------------------------------------ results of an earlier polygon
\* the step consumes the response to request r
Completes(r) == r \in requests /\ r \notin requests'

\* C26: a request of a polygon that Reset or Start has since removed writes,
\* when it completes, neither the results panel nor the POWER table nor the
\* status line; while no polygon is drawn the panel and the table stay
\* cleared.
C26_NoStaleResults ==
  /\ [][\A r \in requests :
          (Completes(r) /\ r.of # poly.id) =>
            (results' = results /\ powerTbody' = powerTbody /\ statusEl' = statusEl)]_vars
  /\ [](poly = NullLayer => (results = Cleared /\ powerTbody = Rows("-", 0)))

====
